---- MODULE Spec2Model ----
(***************************************************************************)
(* Model of pantone_formula_guide_coated_scraper_v.1.0.py.                 *)
(*                                                                         *)
(* Python values are represented as follows.                               *)
(*   - a str is a sequence of one-character strings; COLOUR_FINDER_URL is  *)
(*     kept as one opaque token since nothing looks inside it;             *)
(*   - None is the empty tuple, a present optional value v is <<v>>;       *)
(*   - the 2-tuple returned by scrape_colour is <<code, hex>>, each        *)
(*     component None or <<text>>;                                         *)
(*   - a colour identifier is a record tagged with its Python type         *)
(*     ("int" or "str"), since int() and str() act differently on each;    *)
(*   - the outcome of a call is [kind |-> "return" | "raise", val |-> ..]. *)
(***************************************************************************)
EXTENDS Integers, Sequences, FiniteSets, TLC

VARIABLES
    pc,           \* position of the process in main (or of the lookup harness)
    run,          \* "first" or "second" execution of the script
    i,            \* number of items of the current for-loop already consumed
    path,         \* what is at csv_file_path: "absent", "file" or "other"
    disk,         \* characters stored in the file at csv_file_path
    csv_file,     \* main's local csv_file: "unbound" or "open"
    buf,          \* characters written to csv_file and not yet on disk
    colour,       \* argument of the last scrape_colour call
    colour_url,   \* scrape_colour's local colour_url (None while unbound)
    response,     \* what requests.get did in the last call
    colour_data,  \* main's local colour_data
    exc,          \* name of the uncaught exception, "" if none
    notified,     \* 'Scraping is complete.' has been printed
    log,          \* per loop iteration: identifier, fetched?, wrote?, slept?
    written,      \* characters passed to csv_file.write during this run
    diskAtStart,  \* content of the file when this run started
    prev          \* summary of the previous run

vars == <<pc, run, i, path, disk, csv_file, buf, colour, colour_url, response,
          colour_data, exc, notified, log, written, diskAtStart, prev>>

----------------------------------------------------------------------------
(* Bounds of the model *)

NumNamed == 2
NumNumbered == 2
MaxIdLen == 3
BufCap == 30

----------------------------------------------------------------------------
(* Python values *)

None == <<>>
Some(v) == <<v>>

IntId(n) == [tag |-> "int", n |-> n, s |-> <<>>]
StrId(s) == [tag |-> "str", n |-> 0, s |-> s]

Return(v) == [kind |-> "return", val |-> v]
Raise(e) == [kind |-> "raise", val |-> <<e>>]

Whitespace == {" ", "\n", "\t"}
DigitChars == <<"0", "1", "2", "3", "4", "5", "6", "7", "8", "9">>
IsDigit(c) == \E d \in 1..10 : DigitChars[d] = c
DigitVal(c) == (CHOOSE d \in 1..10 : DigitChars[d] = c) - 1

RECURSIVE LStrip(_)
LStrip(s) ==
    IF s # <<>> /\ Head(s) \in Whitespace THEN LStrip(Tail(s)) ELSE s

RECURSIVE RStrip(_)
RStrip(s) ==
    IF s # <<>> /\ s[Len(s)] \in Whitespace
    THEN RStrip(SubSeq(s, 1, Len(s) - 1))
    ELSE s

\* str.strip()
Strip(s) == RStrip(LStrip(s))

\* str.replace(old, new) for one-character old and new
Replace(s, old, new) == [k \in 1..Len(s) |-> IF s[k] = old THEN new ELSE s[k]]

RECURSIVE DigitsValue(_)
DigitsValue(s) ==
    IF s = <<>> THEN 0
    ELSE IF s[Len(s)] = "_" THEN DigitsValue(SubSeq(s, 1, Len(s) - 1))
    ELSE 10 * DigitsValue(SubSeq(s, 1, Len(s) - 1)) + DigitVal(s[Len(s)])

\* the digit part of a decimal literal accepted by int(): digits, with single
\* underscores allowed between digits
WellFormedDigits(s) ==
    /\ s # <<>>
    /\ \A k \in 1..Len(s) : IsDigit(s[k]) \/ s[k] = "_"
    /\ IsDigit(s[1]) /\ IsDigit(s[Len(s)])
    /\ \A k \in 1..(Len(s) - 1) : ~(s[k] = "_" /\ s[k + 1] = "_")

\* int(x): [ok |-> FALSE] stands for ValueError
py_int(x) ==
    IF x.tag = "int" THEN [ok |-> TRUE, value |-> x.n]
    ELSE LET t == Strip(x.s)
             signed == t # <<>> /\ Head(t) \in {"+", "-"}
             body == IF signed THEN Tail(t) ELSE t
         IN IF WellFormedDigits(body)
            THEN [ok |-> TRUE,
                  value |-> IF signed /\ Head(t) = "-"
                            THEN 0 - DigitsValue(body)
                            ELSE DigitsValue(body)]
            ELSE [ok |-> FALSE, value |-> 0]

RECURSIVE NatToStr(_)
NatToStr(n) ==
    IF n < 10 THEN <<DigitChars[n + 1]>>
    ELSE NatToStr(n \div 10) \o <<DigitChars[(n % 10) + 1]>>

\* str(x)
py_str(x) ==
    IF x.tag = "str" THEN x.s
    ELSE IF x.n < 0 THEN <<"-">> \o NatToStr(0 - x.n)
    ELSE NatToStr(x.n)

----------------------------------------------------------------------------
(* Module-level configuration *)

COLOUR_FINDER_URL == <<"https://www.pantone.com/color-finder">>

RangeStart == 100

\* range(100, 7772), cut to its first NumNumbered items
PANTONE_COATED_NUMBERED_COLOURS ==
    [k \in 1..NumNumbered |-> IntId(RangeStart + k - 1)]

NamedList ==
    << <<"B", "l", "a", "c", "k", " ", "C">>,
       <<"B", "l", "a", "c", "k", " ", "0", "9", "6", "1", " ", "C">>,
       <<"B", "l", "a", "c", "k", " ", "2", " ", "C">>,
       <<"B", "l", "a", "c", "k", " ", "3", " ", "C">> >>

\* the hand-written list, cut to its first NumNamed items
PANTONE_COATED_NAMED_COLOURS ==
    [k \in 1..NumNamed |-> StrId(NamedList[k])]

----------------------------------------------------------------------------
(* URL builders and field extractors *)

get_colour_url_from_name(colour_finder_url, name) ==
    colour_finder_url \o <<"/">> \o Replace(name, " ", "-")

get_colour_url_from_number(colour_finder_url, number) ==
    colour_finder_url \o <<"/">> \o py_str(number) \o <<"-", "C">>

\* soup.find(...) is None or the element; .text.strip() when it is found
get_colour_code(soup) ==
    IF soup.code = None THEN None ELSE Some(Strip(soup.code[1]))

get_colour_hex(soup) ==
    IF soup.hex = None THEN None ELSE Some(Strip(soup.hex[1]))

----------------------------------------------------------------------------
(* The remote site and the transport *)

HexText == <<"0", "0", "A", "9", "E", "0">>

\* text of the pColorCode element of the page at url: the last path segment,
\* surrounded by layout whitespace
PageCode(url) == <<"\n", " ">> \o SubSeq(url, 3, Len(url)) \o <<" ">>
PageHex == <<" ">> \o HexText \o <<"\n">>

\* what requests.get(url) may do: raise (transport failure), return a falsy
\* response (status 4xx/5xx), or return a page with each element there or not
Responses(url) ==
    { [kind |-> k, soup |-> [code |-> None, hex |-> None]] :
        k \in {"transport", "status"} }
    \cup
    { [kind |-> "ok", soup |-> [code |-> c, hex |-> h]] :
        c \in {None, Some(PageCode(url))}, h \in {None, Some(PageHex)} }

NoResponse == [kind |-> "none", soup |-> [code |-> None, hex |-> None]]

----------------------------------------------------------------------------
(* scrape_colour *)

\* lines 134-139: the value of the local colour_url after the try statement,
\* None when neither branch assigned it
resolve_url(c) ==
    LET r == py_int(c) IN
    IF r.ok
    THEN IF r.value # 0
         THEN Some(get_colour_url_from_number(COLOUR_FINDER_URL,
                                              StrId(py_str(c))))
         ELSE None
    ELSE Some(get_colour_url_from_name(COLOUR_FINDER_URL, c.s))

\* lines 141-148
scrape_colour(c, resp) ==
    IF resolve_url(c) = None THEN Raise("UnboundLocalError")
    ELSE IF resp.kind = "transport" THEN Raise("ConnectionError")
    ELSE IF resp.kind = "ok"
         THEN Return(<<get_colour_code(resp.soup), get_colour_hex(resp.soup)>>)
         ELSE Return(None)

\* the responses the transport may give to scrape_colour(c)
ResponsesFor(c) ==
    IF resolve_url(c) = None THEN {NoResponse} ELSE Responses(resolve_url(c)[1])

----------------------------------------------------------------------------
(* The output file *)

\* content of the file right after open(csv_file_path, 'w')
open_w(content) == <<>>

\* content of the file right after open(csv_file_path, 'a')
open_a(content) == content

\* lines 159-164: the handle bound to the local csv_file on return, by what
\* is at the path; "unbound" when neither branch ran
prepare_csv_file(p) ==
    IF p = "file" THEN "open"
    ELSE IF p = "absent" THEN "open"
    ELSE "unbound"

\* the two fields in the wrong order
FormatRecordSwapped(code, hex) ==
    hex \o <<",", " ">> \o code \o <<",", " ", "\n">>

\* f'{colour_code}, {colour_hex}, \n'
FormatRecord(code, hex) == code \o <<",", " ">> \o hex \o <<",", " ", "\n">>

\* line 172
BothPresent(data) == data[1] # None /\ data[2] # None

\* csv_file.write(text) on a handle opened with default buffering: the text
\* stays in the handle's buffer until the buffer overflows
WriteBuf(b, text) == IF Len(b \o text) > BufCap THEN <<>> ELSE b \o text
WriteDisk(d, b, text) == IF Len(b \o text) > BufCap THEN d \o b \o text ELSE d

\* a loop that walks seq from its end
LoopItemReversed(seq, k) == seq[Len(seq) - k]

\* the item a for-loop over seq yields after k items
LoopItem(seq, k) == seq[k + 1]

OldLine == <<"1", ",", " ", "F", ",", " ", "\n">>

NoPrev == [status |-> "none", notified |-> FALSE, successes |-> 0,
           diskAtStart |-> <<>>, diskAtEnd |-> <<>>]

LogEntry(c, f, w, s) == [colour |-> c, fetched |-> f, wrote |-> w, slept |-> s]

Successes(l) == Cardinality({k \in 1..Len(l) : l[k].wrote})

----------------------------------------------------------------------------
(* main *)

Fresh ==
    /\ pc = "start"
    /\ i = 0
    /\ csv_file = "unbound"
    /\ buf = <<>>
    /\ colour = StrId(<<>>)
    /\ colour_url = None
    /\ response = NoResponse
    /\ colour_data = None
    /\ exc = ""
    /\ notified = FALSE
    /\ log = <<>>
    /\ written = <<>>

Init ==
    /\ Fresh
    /\ run = "first"
    /\ path \in {"absent", "file", "other"}
    /\ disk \in (IF path = "file" THEN {<<>>, OldLine} ELSE {<<>>})
    /\ diskAtStart = disk
    /\ prev = NoPrev

\* line 169
Open ==
    /\ pc = "start"
    /\ csv_file' = prepare_csv_file(path)
    /\ IF csv_file' = "open"
       THEN /\ pc' = "named"
            /\ path' = "file"
            /\ disk' = open_a(disk)
            /\ exc' = exc
       ELSE /\ pc' = "crashed"
            /\ exc' = "UnboundLocalError"
            /\ UNCHANGED <<path, disk>>
    /\ UNCHANGED <<run, i, buf, colour, colour_url, response, colour_data,
                   notified, log, written, diskAtStart, prev>>

\* one iteration of a for-loop of main (lines 171-178 and 180-187)
Iterate(colours, after) ==
    LET c == LoopItem(colours, i) IN
    \E resp \in ResponsesFor(c) :
        LET r == scrape_colour(c, resp)
            called == resolve_url(c) # None
        IN
        /\ colour' = c
        /\ colour_url' = resolve_url(c)
        /\ response' = resp
        /\ IF r.kind = "raise"
           THEN /\ pc' = "crashed"
                /\ exc' = r.val[1]
                /\ log' = Append(log, LogEntry(c, called, FALSE, FALSE))
                /\ UNCHANGED <<i, colour_data, buf, disk, written>>
           ELSE IF r.val = None
           THEN \* colour_data[0] on None
                /\ pc' = "crashed"
                /\ exc' = "TypeError"
                /\ colour_data' = r.val
                /\ log' = Append(log, LogEntry(c, called, FALSE, FALSE))
                /\ UNCHANGED <<i, buf, disk, written>>
           ELSE /\ colour_data' = r.val
                /\ exc' = exc
                /\ IF BothPresent(r.val)
                   THEN LET text == FormatRecord(r.val[1][1], r.val[2][1]) IN
                        /\ buf' = WriteBuf(buf, text)
                        /\ disk' = WriteDisk(disk, buf, text)
                        /\ written' = written \o text
                        /\ log' = Append(log, LogEntry(c, called, TRUE, TRUE))
                   ELSE /\ log' = Append(log, LogEntry(c, called, FALSE, FALSE))
                        /\ UNCHANGED <<buf, disk, written>>
                /\ IF i + 1 < Len(colours)
                   THEN /\ i' = i + 1
                        /\ pc' = pc
                   ELSE /\ i' = 0
                        /\ pc' = after
    /\ UNCHANGED <<run, path, csv_file, notified, diskAtStart, prev>>

\* lines 170-178
IterNamed ==
    /\ pc = "named"
    /\ Iterate(PANTONE_COATED_NAMED_COLOURS, "numbered")

\* lines 179-187
IterNumbered ==
    /\ pc = "numbered"
    /\ Iterate(PANTONE_COATED_NUMBERED_COLOURS, "completing")

\* line 188, after which main returns
Complete ==
    /\ pc = "completing"
    /\ pc' = "done"
    /\ notified' = TRUE
    /\ UNCHANGED <<run, i, path, disk, csv_file, buf, colour, colour_url,
                   response, colour_data, exc, log, written, diskAtStart, prev>>

\* the interpreter shuts down, after main returned or after the traceback of
\* an uncaught exception: buffered writers are flushed
Exit ==
    /\ pc \in {"done", "crashed"}
    /\ pc' = "exited"
    /\ disk' = disk \o buf
    /\ buf' = <<>>
    /\ UNCHANGED <<run, i, path, csv_file, colour, colour_url, response,
                   colour_data, exc, notified, log, written, diskAtStart, prev>>

\* the process is killed from outside: what is still buffered is lost
Kill ==
    /\ pc \in {"start", "named", "numbered", "completing", "done", "crashed"}
    /\ pc' = "killed"
    /\ buf' = <<>>
    /\ UNCHANGED <<run, i, path, disk, csv_file, colour, colour_url, response,
                   colour_data, exc, notified, log, written, diskAtStart, prev>>

\* the script is started again on the same directory
Rerun ==
    /\ pc \in {"exited", "killed"}
    /\ run = "first"
    /\ run' = "second"
    /\ prev' = [status |-> pc, notified |-> notified,
                successes |-> Successes(log),
                diskAtStart |-> diskAtStart, diskAtEnd |-> disk]
    /\ diskAtStart' = disk
    /\ pc' = "start"
    /\ i' = 0
    /\ csv_file' = "unbound"
    /\ buf' = <<>>
    /\ colour' = StrId(<<>>)
    /\ colour_url' = None
    /\ response' = NoResponse
    /\ colour_data' = None
    /\ exc' = ""
    /\ notified' = FALSE
    /\ log' = <<>>
    /\ written' = <<>>
    /\ UNCHANGED <<path, disk>>

Next ==
    \/ Open
    \/ IterNamed
    \/ IterNumbered
    \/ Complete
    \/ Exit
    \/ Kill
    \/ Rerun

Spec == Init /\ [][Next]_vars

----------------------------------------------------------------------------
(* scrape_colour applied to arbitrary identifiers *)

IdAlphabet == {"0", "1", " ", "-", "C", "_"}

ProbeInts == (0 - 2)..2

Identifiers ==
    { StrId(s) : s \in UNION { [1..n -> IdAlphabet] : n \in 0..MaxIdLen } }
    \cup { IntId(n) : n \in ProbeInts }
    \cup { PANTONE_COATED_NUMBERED_COLOURS[k] : k \in 1..NumNumbered }
    \cup { PANTONE_COATED_NAMED_COLOURS[k] : k \in 1..NumNamed }

InitLookup ==
    /\ pc = "lookup"
    /\ colour \in Identifiers
    /\ run = "first"
    /\ i = 0
    /\ path = "absent"
    /\ disk = <<>>
    /\ csv_file = "unbound"
    /\ buf = <<>>
    /\ colour_url = None
    /\ response = NoResponse
    /\ colour_data = None
    /\ exc = ""
    /\ notified = FALSE
    /\ log = <<>>
    /\ written = <<>>
    /\ diskAtStart = <<>>
    /\ prev = NoPrev

\* one call scrape_colour(colour), lines 125-148
Lookup ==
    /\ pc = "lookup"
    /\ \E resp \in ResponsesFor(colour) :
        LET r == scrape_colour(colour, resp) IN
        /\ response' = resp
        /\ colour_url' = resolve_url(colour)
        /\ IF r.kind = "raise"
           THEN /\ pc' = "raised"
                /\ exc' = r.val[1]
                /\ colour_data' = colour_data
           ELSE /\ pc' = "returned"
                /\ exc' = exc
                /\ colour_data' = r.val
    /\ UNCHANGED <<run, i, path, disk, csv_file, buf, colour, notified, log,
                   written, diskAtStart, prev>>

NextLookup == Lookup

SpecLookup == InitLookup /\ [][NextLookup]_vars

----------------------------------------------------------------------------
(* Properties *)

IsPrefix(a, b) == Len(a) <= Len(b) /\ SubSeq(b, 1, Len(a)) = a

\* number of lines of a text
NumRecords(t) == Cardinality({k \in 1..Len(t) : t[k] = "\n"})

AllColours == PANTONE_COATED_NAMED_COLOURS \o PANTONE_COATED_NUMBERED_COLOURS

LoggedColours == [k \in 1..Len(log) |-> log[k].colour]

\* the record a complete page for identifier c produces
RecordOf(c) ==
    Strip(PageCode(resolve_url(c)[1])) \o <<",", " ">> \o HexText
        \o <<",", " ", "\n">>

RECURSIVE RecordsOf(_)
RecordsOf(l) ==
    IF l = <<>> THEN <<>>
    ELSE RecordsOf(SubSeq(l, 1, Len(l) - 1))
         \o (IF l[Len(l)].wrote THEN RecordOf(l[Len(l)].colour) ELSE <<>>)

\* C1: no identifier's failure halts the run: a run that opened its sink and
\* stopped by itself has looked up every named and every numbered identifier
\* and has emitted the completion notification.
C1_NoFailureHaltsRun ==
    (csv_file = "open" /\ pc \in {"crashed", "exited"})
        => (notified /\ LoggedColours = AllColours)

\* C2: scrape_colour never raises and always returns a pair of optional
\* fields: (None, None) when the fetch did not succeed, the pair of the two
\* extractors when it did.
C2_LookupReturnsPair ==
    (pc \in {"returned", "raised"} /\ colour_url # None)
        => /\ pc = "returned"
           /\ colour_data =
                IF response.kind = "ok"
                THEN <<get_colour_code(response.soup),
                       get_colour_hex(response.soup)>>
                ELSE <<None, None>>

\* C3: each processed identifier adds exactly one record "{code}, {hex}, \n"
\* to the sink when its lookup returned both fields, and nothing when a field
\* is absent; no other step writes to the sink, and what the sink received is
\* what the handle holds (on disk or in its buffer).
C3_OneRecordPerCompleteLookup ==
    [][ /\ IF run' # run
           THEN written' = <<>>
           ELSE IF Len(log') = Len(log) + 1 /\ pc' # "crashed"
                   /\ colour_data'[1] # None /\ colour_data'[2] # None
           THEN written' = written \o colour_data'[1][1] \o <<",", " ">>
                               \o colour_data'[2][1] \o <<",", " ", "\n">>
           ELSE written' = written
        /\ pc' # "killed" => disk' \o buf' = diskAtStart' \o written'
      ]_vars

C3_Witness ==
    /\ pc = "numbered"
    /\ \E k \in 1..Len(log) : log[k].wrote
    /\ \E k \in 1..Len(log) : ~log[k].wrote
    /\ written # <<>>

\* C4: every lookup that is followed by another lookup is followed by the
\* one-unit delay first.
C4_DelayAfterEveryLookup ==
    \A k \in 1..(Len(log) - 1) : log[k].slept

\* C5: when a run has stopped, by itself or by an external kill, everything
\* it had written through the sink is in the file, after what the file held
\* when the run started.
C5_WrittenRecordsRetained ==
    pc \in {"killed", "exited"} => disk = diskAtStart \o written

\* C6: after two runs to completion on the same path, the file starts with
\* the file the first run left, unchanged, and its record count is the count
\* it had before the first run plus the successful lookups of both runs.
C6_TwoRunsAccumulate ==
    (run = "second" /\ pc = "exited" /\ notified
        /\ prev.status = "exited" /\ prev.notified)
        => /\ IsPrefix(prev.diskAtEnd, disk)
           /\ disk = prev.diskAtEnd \o written
           /\ NumRecords(disk) =
                NumRecords(prev.diskAtStart) + prev.successes + Successes(log)

C6_Witness ==
    /\ run = "second" /\ pc = "exited" /\ notified
    /\ prev.status = "exited" /\ prev.notified
    /\ prev.diskAtStart # <<>>
    /\ prev.successes >= 1
    /\ Successes(log) >= 1

\* C7: once both phases are exhausted and the completion notification is
\* emitted, the sink handle opened at the start of the run has been closed.
C7_SinkClosedAtCompletion ==
    (pc \in {"done", "exited"} /\ notified) => csv_file = "closed"

\* C8: resolving always yields a target: <base>/<n>-C for every identifier
\* that parses as an integer, zero included, and <base>/<name with hyphens
\* for spaces> for every other identifier.
C8_ResolveAlwaysYieldsTarget ==
    pc \in {"returned", "raised"}
        => colour_url =
             IF py_int(colour).ok
             THEN Some(COLOUR_FINDER_URL \o <<"/">> \o py_str(colour)
                       \o <<"-", "C">>)
             ELSE Some(COLOUR_FINDER_URL \o <<"/">>
                       \o Replace(colour.s, " ", "-"))

\* C9: identifiers are fetched once each, the named ones in list order before
\* the numbered ones in ascending order from 100; a completed run has fetched
\* them all; the records are in the file in the order of processing.
C9_TwoPhasesInOrder ==
    /\ IsPrefix(LoggedColours, AllColours)
    /\ \A k \in 1..Len(log) :
        /\ log[k].fetched
        /\ k <= NumNamed => log[k].colour = StrId(NamedList[k])
        /\ k > NumNamed =>
             log[k].colour = IntId(RangeStart + (k - NumNamed) - 1)
    /\ notified => Len(log) = NumNamed + NumNumbered
    /\ written = RecordsOf(log)
    /\ pc = "exited" => disk = diskAtStart \o RecordsOf(log)

C9_Witness ==
    /\ notified
    /\ pc = "exited"
    /\ \A k \in 1..Len(log) : log[k].wrote

\* C10: prepare_csv_file gives main an open handle whatever is at the path:
\* once main is past line 169 its csv_file is an open handle.
C10_HandleForEveryPathState ==
    pc \in {"named", "numbered", "completing", "done", "crashed"}
        => csv_file = "open"

====
